---- MODULE Spec2Model ----
(***************************************************************************)
(* LeviathanMapper (src/LeviathanMapper.go): main configures the HTTP      *)
(* client, launches four source adapters as goroutines, waits for all of   *)
(* them on a WaitGroup and prints the set of unique subdomains.            *)
(*                                                                         *)
(* Strings are sequences of one-character strings, so that indexing        *)
(* (subdomain[0]) and concatenation (Sprintf("%s.%s")) are computed.       *)
(***************************************************************************)
EXTENDS Integers, Sequences, FiniteSets, TLC

\* ------------------------------------------------------------------ bounds
\* Largest number of array entries the sources return in one run of one or
\* two adapters, all responses together.
MaxFindings == 2
\* Largest number of credentials present in the environment, the environment
\* with all three credentials apart.
MaxKeys == 1
\* Largest number of array entries the sources return in one run of three or
\* four adapters, all responses together.
MaxRecords == 4

\* ------------------------------------------------------- program constants
retryLimit == 3
defaultConcurrency == 20

Adapters == {"crt", "st", "sh", "vt"}
\* The three adapters that need a credential.
KeyedAdapters == {"st", "sh", "vt"}

\* ------------------------------------------------------------------ inputs
EmptyString == << >>
\* -domain values: absent, a plain domain, one with an invalid percent
\* escape, one with a control character, and one whose '#' starts a fragment
\* with an invalid escape.
Domains == {EmptyString, <<"d">>, <<"%">>, <<"\n">>, <<"#", "%">>}

\* -concurrency values: negative, zero, the default and the README's 50.
Concurrencies == {-1, 0, defaultConcurrency, 50}

\* The bytes stringContainsCTLByte of net/url finds: those below 0x20, and
\* 0x7f. The four with an escape are written as themselves, each other one
\* is one character here, written by its ASCII name.
ControlChars ==
    {"\t", "\n", "\f", "\r"} \cup
    {"NUL", "SOH", "STX", "ETX", "EOT", "ENQ", "ACK", "BEL", "BS", "VT", "SO",
     "SI", "DLE", "DC1", "DC2", "DC3", "DC4", "NAK", "SYN", "ETB", "CAN", "EM",
     "SUB", "ESC", "FS", "GS", "RS", "US", "DEL"}
HexDigits == {"0", "1", "2", "3", "4", "5", "6", "7", "8", "9",
              "a", "b", "c", "d", "e", "f", "A", "B", "C", "D", "E", "F"}

\* strings.Cut(str, c): the part of str before the first c (all of str when
\* c is not in it) and the part after it.
FirstIndex(str, c) ==
    IF \E j \in DOMAIN str : str[j] = c
    THEN CHOOSE j \in DOMAIN str : str[j] = c /\ \A k \in 1..(j - 1) : str[k] # c
    ELSE Len(str) + 1
CutBefore(str, c) == SubSeq(str, 1, FirstIndex(str, c) - 1)
CutAfter(str, c) == SubSeq(str, FirstIndex(str, c) + 1, Len(str))

\* unescape of net/url (modes encodePath and encodeFragment) returns an
\* EscapeError for str: a '%' that is not followed by two hexadecimal digits.
BadEscape(str) ==
    \E j \in DOMAIN str :
        /\ str[j] = "%"
        /\ ~(j + 2 <= Len(str) /\ str[j + 1] \in HexDigits /\ str[j + 2] \in HexDigits)

\* The URL each adapter formats for domain dom, from the slash after the
\* host on (scheme and host are fixed and parse); Shodan's holds its key.
RequestURL(a, dom, key) ==
    CASE a = "crt" -> <<"/", "?", "q", "=", "%", "2", "5", ".">> \o dom \o
                      <<"&", "o", "u", "t", "p", "u", "t", "=", "j", "s", "o", "n">>
      [] a = "st"  -> <<"/", "v", "1", "/", "d", "o", "m", "a", "i", "n", "/">> \o dom \o
                      <<"/", "s", "u", "b", "d", "o", "m", "a", "i", "n", "s">>
      [] a = "sh"  -> <<"/", "d", "n", "s", "/", "d", "o", "m", "a", "i", "n", "/">> \o dom \o
                      <<"?", "k", "e", "y", "=">> \o key
      [] a = "vt"  -> <<"/", "a", "p", "i", "/", "v", "3", "/", "d", "o", "m", "a", "i", "n", "s", "/">> \o dom \o
                      <<"/", "s", "u", "b", "d", "o", "m", "a", "i", "n", "s">>

\* url.Parse(url) returns an error: it cuts the fragment off at the first
\* '#', rejects a control character before it, cuts the query off at the
\* first '?' and leaves it unchecked, and rejects an invalid escape in the
\* path or in the fragment.
ParseFails(url) ==
    LET u == CutBefore(url, "#")
        frag == CutAfter(url, "#")
        path == CutBefore(u, "?")
    IN  \/ \E j \in DOMAIN u : u[j] \in ControlChars
        \/ BadEscape(path)
        \/ BadEscape(frag)

\* http.NewRequest("GET", url, nil) returns (nil, err) for the adapter's URL.
NewRequestFails(a, dom, key) == ParseFails(RequestURL(a, dom, key))
ApiKeys == {EmptyString, <<"k">>}

\* -proxy values: absent, a reachable proxy, one url.Parse rejects, and one
\* that parses but whose host refuses the TCP probe.
ProxyAbsent == ""
ProxyGood == "http://127.0.0.1:8080"
ProxyMalformed == "http://[::1"
ProxyUnreachable == "http://10.255.255.1:9"
ProxyURLs == {ProxyAbsent, ProxyGood, ProxyMalformed, ProxyUnreachable}

\* url.Parse(proxyURL) returns an error.
UrlParseFails(p) == p = ProxyMalformed
\* net.DialTimeout("tcp", proxy.Host, defaultTimeout) returns an error.
DialFails(p) == p = ProxyUnreachable

\* Short labels the sources know: a plain one, the wildcard label "*", and one
\* with the wildcard below its first character ("a.*").
Labels == {<<"a">>, <<"*">>, <<"a", ".", "*">>}

\* Variant: the label is passed on as it came.
SprintfBare(sub, dom) == sub

\* fmt.Sprintf("%s.%s", sub, domain)
Sprintf(sub, dom) == sub \o <<".">> \o dom

\* One element of a response array: a JSON string, or a value of another
\* type: the number 1 (decoded as float64(1)), or null (decoded as nil).
StringEntry(s) == [isString |-> TRUE, val |-> s]
NonStringEntry == [isString |-> FALSE, val |-> <<"1">>]
NullEntry == [isString |-> FALSE, val |-> <<"n", "u", "l", "l">>]

\* What the verb %s of fmt.Sprintf prints for entry e: the string itself,
\* %!s(<nil>) for nil, %!s(float64=1) for the number 1.
FormatS(e) ==
    IF e.isString THEN e.val
    ELSE IF e = NullEntry
         THEN <<"%", "!", "s", "(", "<", "n", "i", "l", ">", ")">>
         ELSE <<"%", "!", "s", "(", "f", "l", "o", "a", "t", "6", "4", "=">> \o e.val \o <<")">>

\* The labels SecurityTrails and Shodan answer with: a plain one and the
\* wildcard label.
ShortLabels == {<<"a">>, <<"*">>}

\* The values a source may put in its array, for domain dom: crt.sh and
\* VirusTotal answer with full names, SecurityTrails and Shodan with labels;
\* any of them may hold a value that is no string, a number or a null: the
\* two are one case for crt.sh and VirusTotal, which skip both.
EntriesOf(a, dom) ==
    IF a \in {"crt", "vt"}
    THEN {StringEntry(l \o <<".">> \o dom) : l \in Labels} \cup {NonStringEntry}
    ELSE {StringEntry(l) : l \in ShortLabels} \cup {NonStringEntry, NullEntry}

\* A label only the one source has on record.
OwnLabel(a) ==
    CASE a = "crt" -> <<"c">>
      [] a = "st" -> <<"s">>
      [] a = "sh" -> <<"h">>
      [] a = "vt" -> <<"v">>

\* The values of a source whose records are names no other source holds.
OwnEntriesOf(a, dom) ==
    IF a \in {"crt", "vt"}
    THEN {StringEntry(OwnLabel(a) \o <<".">> \o dom)}
    ELSE {StringEntry(OwnLabel(a))}

SeqsUpTo(S, n) == UNION {[1..k -> S] : k \in 0..n}

\* A response body: decodes is FALSE for a body json.Decode rejects for the
\* adapter's target type; hasArray is FALSE when the object lacks the expected
\* key ("subdomains", "data") or holds no array there; entries are the elements
\* of the array otherwise (for crt.sh, the name_value of each record of the
\* top-level array, a non-string entry standing for a record without one).
\* Those with at most n entries, drawn from E.
Bodies(a, E, n) ==
    {[decodes |-> FALSE, hasArray |-> FALSE, entries |-> << >>]}
    \cup (IF a = "crt" THEN {}
          ELSE {[decodes |-> TRUE, hasArray |-> FALSE, entries |-> << >>]})
    \cup {[decodes |-> TRUE, hasArray |-> TRUE, entries |-> es] :
             es \in SeqsUpTo(E, n)}

\* The outcome of one httpClient.Do: a transport error (no response), or a
\* response with a status code.
Outcomes == {[err |-> "timeout", status |-> 0],
             [err |-> "nil", status |-> 500],
             [err |-> "nil", status |-> 404],
             [err |-> "nil", status |-> 200]}

\* What the upstream does on the successive attempts of one call.
Scripts == [1..retryLimit -> Outcomes]

\* fetchWithRetries, from iteration k of its loop on, with err the error of
\* the attempt before and n the sleeps made so far: the returned response
\* (its status, 0 for nil), the returned error, the attempts and the sleeps.
RECURSIVE FetchLoop(_, _, _, _)

\* Variant: any response without a transport error ends the loop, whatever
\* its status.
FetchLoopStatusBlind(script, k, lastErr, n) ==
    IF k < retryLimit
    THEN LET o == script[k + 1]
         IN IF o.err = "nil"
            THEN [resp |-> o.status, err |-> "nil", attempts |-> k + 1, sleeps |-> n]
            ELSE FetchLoop(script, k + 1, o.err, n + 1)
    ELSE [resp |-> 0, err |-> lastErr, attempts |-> k, sleeps |-> n]

FetchLoop(script, k, lastErr, n) ==
    IF k < retryLimit
    THEN LET o == script[k + 1]
         IN IF o.err = "nil" /\ o.status = 200
            THEN [resp |-> o.status, err |-> "nil", attempts |-> k + 1, sleeps |-> n]
            ELSE FetchLoop(script, k + 1, o.err, n + 1)
    ELSE [resp |-> 0, err |-> lastErr, attempts |-> k, sleeps |-> n]

fetchWithRetries(script) == FetchLoop(script, 0, "nil", 0)

\* Every (resp, err) a call of fetchWithRetries can return to an adapter.
FetchReturns == {[resp |-> fetchWithRetries(s).resp, err |-> fetchWithRetries(s).err] : s \in Scripts}

VARIABLES
    domain,      \* -domain flag
    proxyURL,    \* -proxy flag
    apiKey,      \* apiKeySecurityTrails, apiKeyShodan, apiKeyVirusTotal
    concurrency, \* -concurrency flag
    mainPc,      \* position of main
    exitCode,    \* -1 while the process runs, else its exit status
    pc,          \* position of each adapter goroutine
    resp,        \* the adapter's resp: its status, 0 for nil
    err,         \* the adapter's err
    queried,     \* the adapter has called fetchWithRetries, which issues the request
    received,    \* array entries received from the sources so far
    items,       \* entries of the decoded array still to range over
    arg,         \* addSubdomain: its parameter, while the call lasts
    passed,      \* strings the adapter has passed to addSubdomain
    uniqueSubs,  \* keys of the map
    mu,          \* holder of the mutex, "free" if none
    wg,          \* WaitGroup counter
    found,       \* "Subdomain found:" lines, in order
    printed,     \* printAllSubdomains has printed its last line
    listing,     \* lines printed by printAllSubdomains, in order
    subdomainChan, \* the channel: nil, open or closed, its capacity and buffer
    script,      \* a call of fetchWithRetries on its own: the upstream's script
    result       \* and what the call returned

vars == <<domain, proxyURL, apiKey, concurrency, mainPc, exitCode, pc, resp, err, queried,
          received, items, arg, passed, uniqueSubs, mu, wg, found, printed,
          listing, subdomainChan, script, result>>

inputs == <<domain, proxyURL, apiKey, concurrency>>
fetchVars == <<resp, err, queried, received>>
setVars == <<uniqueSubs, found>>
outVars == <<printed, listing>>
callVars == <<script, result>>

Running == exitCode = -1

NoResult == [resp |-> 0, err |-> "nil", attempts |-> 0, sleeps |-> 0]

\* A nil channel, and make(chan string, n).
NilChan == [state |-> "nil", cap |-> 0, buffer |-> << >>]
MakeChan(n) == [state |-> "open", cap |-> n, buffer |-> << >>]

\* The process before main runs, the flags and the environment not yet read.
Fresh ==
    /\ mainPc = "start"
    /\ exitCode = -1
    /\ pc = [a \in Adapters |-> "idle"]
    /\ resp = [a \in Adapters |-> 0]
    /\ err = [a \in Adapters |-> "nil"]
    /\ queried = [a \in Adapters |-> FALSE]
    /\ received = 0
    /\ items = [a \in Adapters |-> << >>]
    /\ arg = [a \in Adapters |-> EmptyString]
    /\ passed = [a \in Adapters |-> {}]
    /\ uniqueSubs = {}
    /\ mu = "free"
    /\ wg = 0
    /\ found = << >>
    /\ printed = FALSE
    /\ listing = << >>
    /\ subdomainChan = NilChan

\* The environments with at most n credentials.
KeyConfigs(n) ==
    {k \in [KeyedAdapters -> ApiKeys] :
        Cardinality({a \in KeyedAdapters : k[a] # EmptyString}) <= n}

\* The environment with all three credentials.
AllKeys == [a \in KeyedAdapters |-> <<"k">>]

\* A usable proxy and the capacity of the channel change nothing after the
\* launch: they are explored with the plain domain and without credentials
\* only; a domain no request can be built for is explored without proxy and
\* with the default capacity. The environment with all three credentials is
\* explored with the plain domain, without proxy and with the default
\* capacity.
Init ==
    /\ domain \in Domains
    /\ proxyURL \in ProxyURLs
    /\ apiKey \in KeyConfigs(MaxKeys) \cup {AllKeys}
    /\ concurrency \in Concurrencies
    /\ apiKey \notin KeyConfigs(MaxKeys) =>
           (domain = <<"d">> /\ proxyURL = ProxyAbsent
            /\ concurrency = defaultConcurrency)
    /\ (proxyURL = ProxyGood \/ concurrency # defaultConcurrency) =>
           (apiKey \in KeyConfigs(0) /\ domain \in {EmptyString, <<"d">>})
    /\ proxyURL = ProxyGood => concurrency = defaultConcurrency
    /\ domain \notin {EmptyString, <<"d">>} => proxyURL = ProxyAbsent
    /\ Fresh
    /\ script = << >>
    /\ result = NoResult

\* ------------------------------------------------------------------- main
\* main: the -domain flag is empty: print the usage line and return.
MainUsage ==
    /\ Running
    /\ mainPc = "start"
    /\ domain = EmptyString
    /\ mainPc' = "exited"
    /\ exitCode' = 0
    /\ UNCHANGED <<inputs, pc, fetchVars, items, arg, passed, setVars, mu, wg, outVars, subdomainChan, callVars>>

\* Variant: the proxy is parsed but never probed.
ProxyIsFatalUnprobed(p) ==
    /\ p # ProxyAbsent
    /\ UrlParseFails(p)

\* configureHTTPClient: TRUE iff it calls os.Exit(1).
ProxyIsFatal(p) ==
    /\ p # ProxyAbsent
    /\ (UrlParseFails(p) \/ DialFails(p))

\* main: flags parsed, domain present: configureHTTPClient, which ends the
\* process with status 1 on a proxy it cannot use.
ConfigureHTTPClient ==
    /\ Running
    /\ mainPc = "start"
    /\ domain # EmptyString
    /\ IF ProxyIsFatal(proxyURL)
       THEN /\ mainPc' = "exited"
            /\ exitCode' = 1
       ELSE /\ mainPc' = "launch"
            /\ UNCHANGED exitCode
    /\ UNCHANGED <<inputs, pc, fetchVars, items, arg, passed, setVars, mu, wg, outVars, subdomainChan, callVars>>

\* main: make(chan string, concurrency), which panics for a negative size
\* (the process ends with status 2, no goroutine started), then wg.Add(4) and
\* the four go statements.
MainLaunch ==
    /\ Running
    /\ mainPc = "launch"
    /\ IF concurrency < 0
       THEN /\ mainPc' = "exited"
            /\ exitCode' = 2
            /\ UNCHANGED <<subdomainChan, wg, pc>>
       ELSE /\ subdomainChan' = MakeChan(concurrency)
            /\ wg' = wg + 4
            /\ pc' = [a \in Adapters |-> "start"]
            /\ mainPc' = "wait"
            /\ UNCHANGED exitCode
    /\ UNCHANGED <<inputs, fetchVars, items, arg, passed, setVars, mu, outVars, callVars>>

\* Variant: the wait is over while one adapter is still out.
WaitReturnsEarly(counter) == counter <= 1

\* wg.Wait() may return.
WaitReturns(counter) == counter = 0

\* main: wg.Wait() returns once the counter is zero; close(subdomainChan).
MainWait ==
    /\ Running
    /\ mainPc = "wait"
    /\ WaitReturns(wg)
    /\ subdomainChan' = [subdomainChan EXCEPT !.state = "closed"]
    /\ mainPc' = "print"
    /\ UNCHANGED <<inputs, exitCode, pc, fetchVars, items, arg, passed, setVars, mu, wg, outVars, callVars>>

\* The keys printAllSubdomains has printed so far.
Visited == {listing[j] : j \in DOMAIN listing}

\* The range over a map with key set S has visited every key.
RangeIsOver(S) == Visited = S

\* printAllSubdomains: one iteration of the range over the map, which visits
\* the keys in an order that is not specified, and prints the key.
PrintLine ==
    /\ Running
    /\ mainPc = "print"
    /\ ~RangeIsOver(uniqueSubs)
    /\ \E subdomain \in uniqueSubs \ Visited : listing' = Append(listing, subdomain)
    /\ UNCHANGED <<inputs, mainPc, exitCode, pc, fetchVars, items, arg, passed, setVars, mu, wg, printed, subdomainChan, callVars>>

\* printAllSubdomains: the range is over; the closing line is printed and the
\* function returns to main.
PrintAllSubdomains ==
    /\ Running
    /\ mainPc = "print"
    /\ RangeIsOver(uniqueSubs)
    /\ printed' = TRUE
    /\ mainPc' = "return"
    /\ UNCHANGED <<inputs, exitCode, pc, fetchVars, items, arg, passed, setVars, mu, wg, listing, subdomainChan, callVars>>

\* main returns: the process ends with status 0, unless a goroutine is
\* panicking, for which the runtime holds main back until the panic has ended
\* the process.
MainReturn ==
    /\ Running
    /\ mainPc = "return"
    /\ \A a \in Adapters : pc[a] # "panicked"
    /\ mainPc' = "exited"
    /\ exitCode' = 0
    /\ UNCHANGED <<inputs, pc, fetchVars, items, arg, passed, setVars, mu, wg, outVars, subdomainChan, callVars>>

\* --------------------------------------------------------------- adapters
\* The credential the adapter reads from its package variable; crt.sh has
\* none.
KeyOf(a) == IF a \in KeyedAdapters THEN apiKey[a] ELSE EmptyString

\* The credential check at the top of the three keyed adapters.
Enabled(a) == IF a \in KeyedAdapters THEN apiKey[a] # EmptyString ELSE TRUE

\* A keyed adapter without its key: print the notice and return; the deferred
\* wg.Done runs.
AdapterSkip(a) ==
    /\ Running
    /\ pc[a] = "start"
    /\ ~Enabled(a)
    /\ pc' = [pc EXCEPT ![a] = "done"]
    /\ wg' = wg - 1
    /\ UNCHANGED <<inputs, mainPc, exitCode, fetchVars, items, arg, passed, setVars, mu, outVars, subdomainChan, callVars>>

\* Variant: the adapter takes the mutex before it calls fetchWithRetries.
AdapterRequestLocked(a) ==
    /\ Running
    /\ pc[a] = "start"
    /\ Enabled(a)
    /\ ~NewRequestFails(a, domain, KeyOf(a))
    /\ mu = "free"
    /\ mu' = a
    /\ queried' = [queried EXCEPT ![a] = TRUE]
    /\ pc' = [pc EXCEPT ![a] = "fetch"]
    /\ UNCHANGED <<inputs, mainPc, exitCode, resp, err, received, items, arg, passed, setVars, wg, outVars, subdomainChan, callVars>>

\* An enabled adapter builds its request and calls fetchWithRetries, whose
\* first statement issues the request.
AdapterRequest(a) ==
    /\ Running
    /\ pc[a] = "start"
    /\ Enabled(a)
    /\ ~NewRequestFails(a, domain, KeyOf(a))
    /\ queried' = [queried EXCEPT ![a] = TRUE]
    /\ pc' = [pc EXCEPT ![a] = "fetch"]
    /\ UNCHANGED <<inputs, mainPc, exitCode, resp, err, received, items, arg, passed, setVars, mu, wg, outVars, subdomainChan, callVars>>

\* An enabled adapter whose http.NewRequest failed, the error discarded, goes
\* on with a nil request: req.Header.Add (SecurityTrails, VirusTotal) or
\* httpClient.Do (crt.sh, Shodan) dereferences it before anything is sent.
\* The goroutine panics; its deferred wg.Done runs before the runtime ends
\* the process.
AdapterBadRequest(a) ==
    /\ Running
    /\ pc[a] = "start"
    /\ Enabled(a)
    /\ NewRequestFails(a, domain, KeyOf(a))
    /\ pc' = [pc EXCEPT ![a] = "panicked"]
    /\ wg' = wg - 1
    /\ UNCHANGED <<inputs, mainPc, exitCode, fetchVars, items, arg, passed, setVars, mu, outVars, subdomainChan, callVars>>

\* Variant: the error path returns without wg.Done (no defer).
AdapterErrorNoDone(a, r) ==
    /\ Running
    /\ pc[a] = "fetch"
    /\ r.err # "nil"
    /\ resp' = [resp EXCEPT ![a] = r.resp]
    /\ err' = [err EXCEPT ![a] = r.err]
    /\ pc' = [pc EXCEPT ![a] = "done"]
    /\ UNCHANGED <<inputs, mainPc, exitCode, queried, received, items, arg, passed, setVars, mu, wg, outVars, subdomainChan, callVars>>

\* fetchWithRetries returns r, an error, to the adapter: the adapter prints it
\* and returns; the deferred wg.Done runs.
AdapterError(a, r) ==
    /\ Running
    /\ pc[a] = "fetch"
    /\ r.err # "nil"
    /\ resp' = [resp EXCEPT ![a] = r.resp]
    /\ err' = [err EXCEPT ![a] = r.err]
    /\ pc' = [pc EXCEPT ![a] = "done"]
    /\ wg' = wg - 1
    /\ UNCHANGED <<inputs, mainPc, exitCode, queried, received, items, arg, passed, setVars, mu, outVars, subdomainChan, callVars>>

\* fetchWithRetries returns r, (nil, nil), to the adapter: the err check passes
\* and `defer resp.Body.Close()` dereferences the nil response. The
\* goroutine panics; its deferred wg.Done runs before the runtime ends the
\* process.
AdapterPanic(a, r) ==
    /\ Running
    /\ pc[a] = "fetch"
    /\ r.err = "nil"
    /\ r.resp = 0
    /\ resp' = [resp EXCEPT ![a] = r.resp]
    /\ err' = [err EXCEPT ![a] = r.err]
    /\ pc' = [pc EXCEPT ![a] = "panicked"]
    /\ wg' = wg - 1
    /\ UNCHANGED <<inputs, mainPc, exitCode, queried, received, items, arg, passed, setVars, mu, outVars, subdomainChan, callVars>>

\* The runtime ends the process with status 2 after an unrecovered panic.
Crash ==
    /\ Running
    /\ \E a \in Adapters : pc[a] = "panicked"
    /\ exitCode' = 2
    /\ UNCHANGED <<inputs, mainPc, pc, fetchVars, items, arg, passed, setVars, mu, wg, outVars, subdomainChan, callVars>>

\* The entries the adapter ranges over after json.Decode of body b.
Decode(b) == IF b.decodes /\ b.hasArray THEN b.entries ELSE << >>

\* Where the adapter stands after json.Decode of body b and the type
\* assertion on the expected key: at its range loop, or, when Decode returned
\* an error or the assertion failed, past the skipped if-body.
AfterDecode(b) == IF b.decodes /\ b.hasArray THEN "range" ELSE "undecoded"

\* The environment holds several credentials: three adapters or all four
\* query.
ManyKeyed == Cardinality({a \in KeyedAdapters : apiKey[a] # EmptyString}) > 1

\* The bodies the source of adapter a can still send. In a run of three or
\* four adapters the sources hold records of their own, MaxRecords in all;
\* in a run of one or two they share the names of Labels and ShortLabels,
\* MaxFindings in all.
Answers(a) ==
    IF ManyKeyed
    THEN Bodies(a, OwnEntriesOf(a, domain), MaxRecords - received)
    ELSE Bodies(a, EntriesOf(a, domain), MaxFindings - received)

\* fetchWithRetries returns r, a response, to the adapter, which decodes its
\* body, one of those the source can send.
AdapterDecode(a, r) ==
    /\ Running
    /\ pc[a] = "fetch"
    /\ r.err = "nil"
    /\ r.resp # 0
    /\ resp' = [resp EXCEPT ![a] = r.resp]
    /\ err' = [err EXCEPT ![a] = r.err]
    /\ \E b \in Answers(a) :
          /\ received' = received + Len(b.entries)
          /\ items' = [items EXCEPT ![a] = Decode(b)]
          /\ pc' = [pc EXCEPT ![a] = AfterDecode(b)]
    /\ UNCHANGED <<inputs, mainPc, exitCode, queried, arg, passed, setVars, mu, wg, outVars, subdomainChan, callVars>>

\* Whether the adapter passes entry e on: crt.sh and VirusTotal assert that it
\* is a string, SecurityTrails and Shodan format whatever they get.
Accepts(a, e) == a \in {"st", "sh"} \/ e.isString

\* The string the adapter passes to addSubdomain for entry e: crt.sh and
\* VirusTotal pass the string they asserted, SecurityTrails and Shodan the
\* entry formatted with %s, a dot and the domain.
Argument(a, e, dom) ==
    IF a \in {"st", "sh"}
    THEN Sprintf(FormatS(e), dom)
    ELSE e.val

\* One iteration of the adapter's range loop: call addSubdomain for the
\* next entry, or skip an entry that is no string.
AdapterNext(a) ==
    /\ Running
    /\ pc[a] = "range"
    /\ items[a] # << >>
    /\ items' = [items EXCEPT ![a] = Tail(items[a])]
    /\ IF Accepts(a, Head(items[a]))
       THEN /\ arg' = [arg EXCEPT ![a] = Argument(a, Head(items[a]), domain)]
            /\ passed' = [passed EXCEPT ![a] = passed[a] \cup {Argument(a, Head(items[a]), domain)}]
            /\ pc' = [pc EXCEPT ![a] = "lock"]
       ELSE UNCHANGED <<arg, passed, pc>>
    /\ UNCHANGED <<inputs, mainPc, exitCode, fetchVars, setVars, mu, wg, outVars, subdomainChan, callVars>>

\* Variant: the lock is taken whether or not it is free.
AddLockBarging(a) ==
    /\ Running
    /\ pc[a] = "lock"
    /\ mu' = a
    /\ pc' = [pc EXCEPT ![a] = "critical"]
    /\ UNCHANGED <<inputs, mainPc, exitCode, fetchVars, items, arg, passed, setVars, wg, outVars, subdomainChan, callVars>>

\* addSubdomain: mu.Lock()
AddLock(a) ==
    /\ Running
    /\ pc[a] = "lock"
    /\ mu = "free"
    /\ mu' = a
    /\ pc' = [pc EXCEPT ![a] = "critical"]
    /\ UNCHANGED <<inputs, mainPc, exitCode, fetchVars, items, arg, passed, setVars, wg, outVars, subdomainChan, callVars>>

\* Variant: the wrong end of the string is inspected.
containsWildcardLast(subdomain) ==
    Len(subdomain) > 0 /\ subdomain[Len(subdomain)] = "*"

containsWildcard(subdomain) == Len(subdomain) > 0 /\ subdomain[1] = "*"

\* Variant: the existence test is inverted, so nothing new is ever inserted.
AddSubdomainInverted(a) ==
    /\ Running
    /\ pc[a] = "critical"
    /\ IF containsWildcard(arg[a])
       THEN UNCHANGED setVars
       ELSE IF arg[a] \in uniqueSubs
            THEN /\ uniqueSubs' = uniqueSubs \cup {arg[a]}
                 /\ found' = Append(found, arg[a])
            ELSE UNCHANGED setVars
    /\ mu' = "free"
    /\ arg' = [arg EXCEPT ![a] = EmptyString]
    /\ pc' = [pc EXCEPT ![a] = "range"]
    /\ UNCHANGED <<inputs, mainPc, exitCode, fetchVars, items, passed, wg, outVars, subdomainChan, callVars>>

\* Variant: the map is made anew on every insert.
AddSubdomainOverwrite(a) ==
    /\ Running
    /\ pc[a] = "critical"
    /\ IF containsWildcard(arg[a])
       THEN UNCHANGED setVars
       ELSE IF arg[a] \notin uniqueSubs
            THEN /\ uniqueSubs' = {arg[a]}
                 /\ found' = Append(found, arg[a])
            ELSE UNCHANGED setVars
    /\ mu' = "free"
    /\ arg' = [arg EXCEPT ![a] = EmptyString]
    /\ pc' = [pc EXCEPT ![a] = "range"]
    /\ UNCHANGED <<inputs, mainPc, exitCode, fetchVars, items, passed, wg, outVars, subdomainChan, callVars>>

\* Variant: every accepted submission is announced, new or not.
AddSubdomainAnnounceAll(a) ==
    /\ Running
    /\ pc[a] = "critical"
    /\ IF containsWildcard(arg[a])
       THEN UNCHANGED setVars
       ELSE /\ uniqueSubs' = uniqueSubs \cup {arg[a]}
            /\ found' = Append(found, arg[a])
    /\ mu' = "free"
    /\ arg' = [arg EXCEPT ![a] = EmptyString]
    /\ pc' = [pc EXCEPT ![a] = "range"]
    /\ UNCHANGED <<inputs, mainPc, exitCode, fetchVars, items, passed, wg, outVars, subdomainChan, callVars>>

\* Variant: a duplicate submission evicts the key (a toggle in place of an
\* insert).
AddSubdomainToggle(a) ==
    /\ Running
    /\ pc[a] = "critical"
    /\ IF containsWildcard(arg[a])
       THEN UNCHANGED setVars
       ELSE IF arg[a] \notin uniqueSubs
            THEN /\ uniqueSubs' = uniqueSubs \cup {arg[a]}
                 /\ found' = Append(found, arg[a])
            ELSE /\ uniqueSubs' = uniqueSubs \ {arg[a]}
                 /\ UNCHANGED found
    /\ mu' = "free"
    /\ arg' = [arg EXCEPT ![a] = EmptyString]
    /\ pc' = [pc EXCEPT ![a] = "range"]
    /\ UNCHANGED <<inputs, mainPc, exitCode, fetchVars, items, passed, wg, outVars, subdomainChan, callVars>>

\* Variant: mu.Unlock() is not deferred and the early return that drops a
\* wildcard leaves without it.
AddSubdomainWildcardKeepsLock(a) ==
    /\ Running
    /\ pc[a] = "critical"
    /\ IF containsWildcard(arg[a])
       THEN UNCHANGED <<setVars, mu>>
       ELSE /\ mu' = "free"
            /\ IF arg[a] \notin uniqueSubs
               THEN /\ uniqueSubs' = uniqueSubs \cup {arg[a]}
                    /\ found' = Append(found, arg[a])
               ELSE UNCHANGED setVars
    /\ arg' = [arg EXCEPT ![a] = EmptyString]
    /\ pc' = [pc EXCEPT ![a] = "range"]
    /\ UNCHANGED <<inputs, mainPc, exitCode, fetchVars, items, passed, wg, outVars, subdomainChan, callVars>>

\* addSubdomain after mu.Lock(): drop a wildcard, insert a new key and print
\* it; the deferred mu.Unlock() runs on return.
AddSubdomain(a) ==
    /\ Running
    /\ pc[a] = "critical"
    /\ IF containsWildcard(arg[a])
       THEN UNCHANGED setVars
       ELSE IF arg[a] \notin uniqueSubs
            THEN /\ uniqueSubs' = uniqueSubs \cup {arg[a]}
                 /\ found' = Append(found, arg[a])
            ELSE UNCHANGED setVars
    /\ mu' = "free"
    /\ arg' = [arg EXCEPT ![a] = EmptyString]
    /\ pc' = [pc EXCEPT ![a] = "range"]
    /\ UNCHANGED <<inputs, mainPc, exitCode, fetchVars, items, passed, wg, outVars, subdomainChan, callVars>>

\* The adapter's loop is over: it returns; the deferred resp.Body.Close and
\* wg.Done run.
AdapterDone(a) ==
    /\ Running
    /\ pc[a] = "range"
    /\ items[a] = << >>
    /\ pc' = [pc EXCEPT ![a] = "done"]
    /\ wg' = wg - 1
    /\ UNCHANGED <<inputs, mainPc, exitCode, fetchVars, items, arg, passed, setVars, mu, outVars, subdomainChan, callVars>>

\* The body gave no array: the if-body is skipped and the adapter returns; the
\* deferred resp.Body.Close and wg.Done run.
AdapterUndecoded(a) ==
    /\ Running
    /\ pc[a] = "undecoded"
    /\ pc' = [pc EXCEPT ![a] = "done"]
    /\ wg' = wg - 1
    /\ UNCHANGED <<inputs, mainPc, exitCode, fetchVars, items, arg, passed, setVars, mu, outVars, subdomainChan, callVars>>

Next ==
    \/ MainUsage
    \/ ConfigureHTTPClient
    \/ MainLaunch
    \/ MainWait
    \/ PrintLine
    \/ PrintAllSubdomains
    \/ MainReturn
    \/ Crash
    \/ \E a \in Adapters : AdapterSkip(a)
    \/ \E a \in Adapters : AdapterRequest(a)
    \/ \E a \in Adapters : AdapterBadRequest(a)
    \/ \E a \in Adapters : \E r \in FetchReturns : AdapterError(a, r)
    \/ \E a \in Adapters : \E r \in FetchReturns : AdapterPanic(a, r)
    \/ \E a \in Adapters : \E r \in FetchReturns : AdapterDecode(a, r)
    \/ \E a \in Adapters : AdapterNext(a)
    \/ \E a \in Adapters : AddLock(a)
    \/ \E a \in Adapters : AddSubdomain(a)
    \/ \E a \in Adapters : AdapterDone(a)
    \/ \E a \in Adapters : AdapterUndecoded(a)

Spec == Init /\ [][Next]_vars

\* The steps of main, and those of the goroutine of adapter a.
MainStep ==
    \/ MainUsage \/ ConfigureHTTPClient \/ MainLaunch \/ MainWait
    \/ PrintLine \/ PrintAllSubdomains \/ MainReturn

AdapterStep(a) ==
    \/ AdapterSkip(a)
    \/ AdapterRequest(a)
    \/ AdapterBadRequest(a)
    \/ \E r \in FetchReturns : AdapterError(a, r)
    \/ \E r \in FetchReturns : AdapterPanic(a, r)
    \/ \E r \in FetchReturns : AdapterDecode(a, r)
    \/ AdapterNext(a)
    \/ AddLock(a)
    \/ AddSubdomain(a)
    \/ AdapterDone(a)
    \/ AdapterUndecoded(a)

\* The same program under a fair scheduler, with HTTP attempts and sleeps
\* that end: main and each goroutine take a step that stays possible, and the
\* runtime ends the process after an unrecovered panic.
SpecFair ==
    /\ Init
    /\ [][Next]_vars
    /\ WF_vars(MainStep)
    /\ WF_vars(Crash)
    /\ \A a \in Adapters : WF_vars(AdapterStep(a))

\* ------------------------------------------- fetchWithRetries on its own
\* One call of fetchWithRetries against an upstream that follows script.
InitFetch ==
    /\ domain = <<"d">>
    /\ proxyURL = ProxyAbsent
    /\ apiKey = [a \in KeyedAdapters |-> EmptyString]
    /\ concurrency = defaultConcurrency
    /\ Fresh
    /\ script \in Scripts
    /\ result = NoResult

FetchCall ==
    /\ result = NoResult
    /\ result' = fetchWithRetries(script)
    /\ UNCHANGED <<inputs, mainPc, exitCode, pc, fetchVars, items, arg, passed, setVars, mu, wg, outVars, subdomainChan, script>>

SpecFetch == InitFetch /\ [][FetchCall]_vars

\* ----------------------------------------------------------------- claims
\* The first character of s is '*'.
StartsWithStar(s) == Len(s) > 0 /\ s[1] = "*"
\* Everything the adapters have passed to addSubdomain.
AllPassed == UNION {passed[a] : a \in Adapters}
\* The part of S that is no wildcard entry.
NonWildcard(S) == {s \in S : ~StartsWithStar(s)}
\* The number of lines of the listing that are s.
Occurrences(s) == Cardinality({j \in DOMAIN listing : listing[j] = s})
\* The lines of the listing.
Listed == {listing[j] : j \in DOMAIN listing}
\* The adapter has signalled completion.
Signalled(a) == pc[a] \in {"done", "panicked"}
\* main is past wg.Wait().
BarrierReleased == mainPc \in {"print", "return"} \/ listing # << >> \/ printed
\* The proxy given is one configureHTTPClient rejects.
BadProxy == proxyURL # "" /\ (UrlParseFails(proxyURL) \/ DialFails(proxyURL))
\* The flags let main launch the adapters and every adapter build its
\* request: a domain no URL rejects, a proxy that is absent or usable and a
\* capacity make accepts.
Launches ==
    /\ domain # EmptyString
    /\ \A a \in Adapters : ~NewRequestFails(a, domain, KeyOf(a))
    /\ ~BadProxy
    /\ concurrency >= 0
\* The attempt succeeded: no transport error and status 200.
Succeeds(o) == o.err = "nil" /\ o.status = 200
\* The call of fetchWithRetries has returned.
Called == result # NoResult

\* C1: with a usable or absent proxy and flags that let the adapters run, no
\* outcome of the sources aborts the run: a process that has ended has
\* printed the final listing and ended with status 0.
C1_NoSourceErrorAborts ==
    (Launches /\ ~Running) => (printed /\ exitCode = 0)

\* C2: once the listing is printed, every string that was passed to
\* addSubdomain and is no wildcard entry is in the set and on exactly one
\* line, whichever adapters passed it and however their calls interleaved.
C2_EachStringOnce ==
    printed => \A s \in NonWildcard(AllPassed) : s \in uniqueSubs /\ Occurrences(s) = 1

\* C2 witness: two adapters passed the same accepted string and the listing
\* is printed.
C2_Witness ==
    /\ printed
    /\ \E a, b \in Adapters : a # b /\ NonWildcard(passed[a] \cap passed[b]) # {}

\* C3: no string starting with '*' is ever in the set, in a discovery line
\* or in the listing.
C3_NoWildcard ==
    /\ \A s \in uniqueSubs : ~StartsWithStar(s)
    /\ \A j \in DOMAIN found : ~StartsWithStar(found[j])
    /\ \A j \in DOMAIN listing : ~StartsWithStar(listing[j])

\* C3 witness: SecurityTrails or Shodan passed a string starting with '*' to
\* addSubdomain, crt.sh or VirusTotal passed the same string again, and the
\* listing is printed.
C3_Witness ==
    /\ printed
    /\ \E a \in {"st", "sh"} : \E b \in {"crt", "vt"} :
          \E s \in passed[a] \cap passed[b] : StartsWithStar(s)

\* C4: an adapter whose call of fetchWithRetries returned without a response
\* (every attempt failed) holds a non-nil error and has recorded no finding.
C4_ExhaustedFetchFails ==
    \A a \in Adapters :
        (queried[a] /\ pc[a] # "fetch" /\ resp[a] = 0) => (err[a] # "nil" /\ passed[a] = {})

\* C5: fetchWithRetries makes at most retryLimit attempts; it returns the
\* response of the first successful attempt k, with a nil error, after
\* exactly k attempts; and every failed attempt before the last is followed
\* by another one.
C5_RetrySchedule ==
    Called =>
        /\ result.attempts \in 1..retryLimit
        /\ \A k \in 1..retryLimit :
              (Succeeds(script[k]) /\ \A j \in 1..(k - 1) : ~Succeeds(script[j]))
                  => (result.attempts = k /\ result.resp = 200 /\ result.err = "nil")
        /\ \A k \in 1..(retryLimit - 1) :
              (\A j \in 1..k : ~Succeeds(script[j])) => result.attempts >= k + 1

\* C5 witness: attempts 1 and 2 fail, one by a transport error and one by
\* its status, attempt 3 succeeds, and the call has returned.
C5_Witness ==
    /\ Called
    /\ script[1].err # "nil"
    /\ script[2].err = "nil" /\ script[2].status # 200
    /\ Succeeds(script[3])
    /\ result.attempts = 3

\* C6: while main is past the barrier every adapter has signalled
\* completion, and no step taken past the barrier changes the set.
C6_ListingAfterAllDone ==
    /\ [](BarrierReleased => \A a \in Adapters : Signalled(a))
    /\ [][BarrierReleased => uniqueSubs' = uniqueSubs]_vars

\* C6 witness: the listing is printed, not empty, after an adapter recorded.
C6_Witness ==
    /\ printed
    /\ listing # << >>
    /\ \A a \in Adapters : Signalled(a)

\* A credential is missing: a keyed adapter is disabled.
SomeDisabled == \E a \in KeyedAdapters : apiKey[a] = EmptyString

\* C7: a keyed adapter without its credential issues no request, passes
\* nothing to addSubdomain, goes from its start straight to completion, and
\* is counted by the barrier like the others; a run with a disabled adapter
\* that launched its adapters ends with the listing printed and status 0,
\* and the listing holds every accepted finding of the other adapters.
C7_DisabledAdapter ==
    /\ \A a \in KeyedAdapters :
          apiKey[a] = EmptyString =>
              /\ ~queried[a]
              /\ passed[a] = {}
              /\ pc[a] \in {"idle", "start", "done"}
    /\ mainPc = "wait" => wg = Cardinality({a \in Adapters : ~Signalled(a)})
    /\ (SomeDisabled /\ Launches /\ ~Running) => (printed /\ exitCode = 0)
    /\ printed => NonWildcard(AllPassed) \subseteq Listed

\* The sum of the sizes of the adapters' accepted contributions.
ContributionSizes ==
    Cardinality(NonWildcard(passed["crt"])) + Cardinality(NonWildcard(passed["st"]))
        + Cardinality(NonWildcard(passed["sh"])) + Cardinality(NonWildcard(passed["vt"]))

\* The adapters' accepted contributions are pairwise disjoint.
DisjointContributions ==
    \A a, b \in Adapters : a # b => NonWildcard(passed[a] \cap passed[b]) = {}

\* C8: the printed listing is exactly the set of non-wildcard strings passed
\* to addSubdomain, each on one line; when the adapters' contributions are
\* pairwise disjoint its length is the sum of their sizes.
C8_ListingIsWhatWasPassed ==
    printed =>
        /\ Listed = NonWildcard(AllPassed)
        /\ Len(listing) = Cardinality(NonWildcard(AllPassed))
        /\ DisjointContributions => Len(listing) = ContributionSizes

\* C8 witness: each of the four adapters contributed an accepted finding,
\* the four contributions are pairwise disjoint, and the listing is printed
\* with as many lines as the contributions hold together.
C8_Witness ==
    /\ printed
    /\ DisjointContributions
    /\ \A a \in Adapters : NonWildcard(passed[a]) # {}
    /\ ContributionSizes >= Cardinality(Adapters)
    /\ Len(listing) = ContributionSizes

\* C9: with a proxy that does not parse or does not answer the probe, no
\* adapter is ever launched, no request is issued, nothing is recorded, the
\* listing is never printed, and the process, once configureHTTPClient has
\* met the proxy (main calls it when a domain is given), ends with status 1.
C9_BadProxyIsFatal ==
    BadProxy =>
        /\ \A a \in Adapters : pc[a] = "idle" /\ ~queried[a] /\ passed[a] = {}
        /\ uniqueSubs = {}
        /\ ~printed
        /\ mainPc \in {"start", "exited"}
        /\ (domain # EmptyString /\ ~Running) => exitCode = 1

\* C9 witness: the process has ended on a proxy that parses but does not
\* answer.
C9_Witness ==
    /\ domain # EmptyString
    /\ DialFails(proxyURL)
    /\ ~UrlParseFails(proxyURL)
    /\ exitCode = 1

\* s is the label l, a dot and the domain dom.
IsLabelDotDomain(s, l, dom) ==
    /\ Len(s) = Len(l) + 1 + Len(dom)
    /\ SubSeq(s, 1, Len(l)) = l
    /\ s[Len(l) + 1] = "."
    /\ SubSeq(s, Len(l) + 2, Len(s)) = dom

\* C10: when SecurityTrails or Shodan calls addSubdomain for the label (a
\* JSON string) at the head of its array, the string passed is label.domain
\* and not the bare label; no bare label they returned is ever in the set.
C10_LabelDotDomain ==
    /\ [][\A a \in {"st", "sh"} :
            (pc[a] = "range" /\ pc'[a] = "lock" /\ Head(items[a]).isString) =>
                /\ IsLabelDotDomain(arg'[a], Head(items[a]).val, domain)
                /\ arg'[a] # Head(items[a]).val
                /\ passed'[a] = passed[a] \cup {arg'[a]}]_vars
    /\ [](\A l \in Labels \cup ShortLabels \cup {OwnLabel(a) : a \in Adapters} :
              l \notin uniqueSubs)

\* C10 witness: the string a.d, built from the label a, is in the set, passed
\* by SecurityTrails or Shodan.
C10_Witness ==
    \E a \in {"st", "sh"} :
        /\ <<"a", ".", "d">> \in passed[a]
        /\ <<"a", ".", "d">> \in uniqueSubs
        /\ domain = <<"d">>

\* The "Subdomain found:" lines as a set.
Announced == {found[j] : j \in DOMAIN found}
\* The number of "Subdomain found:" lines that are s.
Announcements(s) == Cardinality({j \in DOMAIN found : found[j] = s})

\* C12: an adapter whose 200 response is not of the expected shape records
\* nothing and ends normally. A body that gave no array (json.Decode failed,
\* or the expected key is missing or of another type) leaves the adapter with
\* nothing to range over and nothing passed; its next step is its return,
\* which is always possible while the process runs, signals completion and
\* leaves the exit status, the set and the other adapters' findings as they
\* were; an adapter that has returned passes nothing any more; and an element
\* of the array that is no string is never passed to addSubdomain.
C12_MalformedBodyIsNoFindings ==
    /\ [](\A a \in Adapters :
            pc[a] = "undecoded" =>
                /\ resp[a] = 200
                /\ items[a] = << >>
                /\ passed[a] = {}
                /\ Running => ENABLED AdapterUndecoded(a))
    /\ [][\A a \in Adapters :
            (pc[a] = "fetch" /\ pc'[a] = "undecoded") =>
                /\ exitCode' = exitCode
                /\ passed' = passed
                /\ uniqueSubs' = uniqueSubs
                /\ \A b \in Adapters \ {a} : pc'[b] = pc[b] /\ items'[b] = items[b]]_vars
    /\ [][\A a \in Adapters :
            (pc[a] = "undecoded" /\ pc'[a] # "undecoded") =>
                /\ pc'[a] = "done"
                /\ wg' = wg - 1
                /\ exitCode' = exitCode
                /\ passed' = passed
                /\ uniqueSubs' = uniqueSubs
                /\ \A b \in Adapters \ {a} : pc'[b] = pc[b] /\ items'[b] = items[b]]_vars
    /\ [][\A a \in Adapters :
            pc[a] = "done" => (pc'[a] = "done" /\ passed'[a] = passed[a])]_vars
    /\ [][\A a \in Adapters :
            (pc[a] = "range" /\ items'[a] # items[a] /\ ~Head(items[a]).isString) =>
                (pc'[a] = "range" /\ passed' = passed)]_vars

\* C13: the strings with a discovery line are exactly the members of the
\* set, each with one line; a step adds a line exactly when it inserts a new
\* member, and the line is that member; a call of addSubdomain for a member
\* or for a wildcard adds no line; and the printed listing is the set of
\* strings with a discovery line.
C13_OneEventPerMember ==
    /\ [](/\ Announced = uniqueSubs
          /\ \A s \in uniqueSubs : Announcements(s) = 1
          /\ printed => Listed = Announced)
    /\ [][\/ found' = found /\ uniqueSubs' = uniqueSubs
          \/ \E s \in uniqueSubs' \ uniqueSubs :
                /\ uniqueSubs' = uniqueSubs \cup {s}
                /\ found' = Append(found, s)]_vars
    /\ [][\A a \in Adapters :
            (pc[a] = "critical" /\ pc'[a] = "range"
                 /\ (arg[a] \in uniqueSubs \/ StartsWithStar(arg[a])))
            => found' = found]_vars

\* C13 witness: the listing is printed after one string was submitted by two
\* adapters and announced once.
C13_Witness ==
    /\ printed
    /\ Len(found) = 1
    /\ \E a, b \in Adapters : a # b /\ found[1] \in passed[a] \cap passed[b]

\* C16: an adapter that is inside fetchWithRetries or decoding the response
\* (between its request and the end of json.Decode), or has not come that far,
\* does not hold mu; mu is held only inside addSubdomain.
C16_NoLockAcrossIO ==
    \A a \in Adapters :
        /\ pc[a] \in {"idle", "start", "fetch", "undecoded"} => mu # a
        /\ mu = a => pc[a] = "critical"

\* C16 witness: one adapter is inside fetchWithRetries while another holds mu.
C16_Witness ==
    \E a, b \in Adapters : pc[a] = "fetch" /\ mu = b /\ pc[b] = "critical"

\* C18: the set is empty until the adapters are launched, and no step removes
\* a member: the set before a step is a subset of the set after it.
C18_MonotoneSet ==
    /\ [](mainPc \in {"start", "launch"} => uniqueSubs = {})
    /\ [][uniqueSubs \subseteq uniqueSubs']_vars

\* C18 witness: the set has grown twice and the listing is printed.
C18_Witness ==
    /\ printed
    /\ Cardinality(uniqueSubs) >= 2

\* C11: under a fair scheduler, when the flags let the adapters run, every adapter
\* eventually signals completion and main eventually passes the barrier and
\* prints the listing.
C11_EventuallyListed ==
    Launches => <>(printed /\ \A a \in Adapters : Signalled(a))

\* The strings sent on subdomainChan and not yet received.
Buffered == {subdomainChan.buffer[j] : j \in DOMAIN subdomainChan.buffer}

\* C14: once the listing is printed, every member of the set has been handed
\* to the validator through subdomainChan, whose buffer never holds more than
\* the concurrency bound.
C14_SetIsValidated ==
    /\ Len(subdomainChan.buffer) <= subdomainChan.cap
    /\ printed => uniqueSubs \subseteq Buffered

\* C15: a step that reads or writes the set, the check-and-insert of
\* addSubdomain or a step of the range of printAllSubdomains, is taken with
\* mu held.
C15_AllAccessUnderMu ==
    [][/\ \A a \in Adapters : (pc[a] = "critical" /\ pc'[a] = "range") => mu = a
       /\ (mainPc = "print" /\ (listing' # listing \/ mainPc' # mainPc)) => mu # "free"]_vars

\* C15, amended: the check-and-insert of addSubdomain is taken with mu held by
\* the calling adapter and nothing else changes the set; the range of
\* printAllSubdomains is taken without mu, after every adapter has signalled
\* completion, and leaves the set as it is.
C15_WritesUnderMuReadAfterBarrier ==
    [][/\ \A a \in Adapters : (pc[a] = "critical" /\ pc'[a] = "range") => mu = a
       /\ uniqueSubs' # uniqueSubs =>
              \E a \in Adapters : mu = a /\ pc[a] = "critical" /\ pc'[a] = "range"
       /\ (mainPc = "print" /\ (listing' # listing \/ mainPc' # mainPc)) =>
              /\ mu = "free"
              /\ \A a \in Adapters : Signalled(a)
              /\ uniqueSubs' = uniqueSubs]_vars

\* C15 witness: the listing was printed, with mu free, after two adapters
\* each inserted under mu.
C15_Witness ==
    /\ printed
    /\ mu = "free"
    /\ Len(found) >= 2
    /\ \E a, b \in Adapters :
          a # b /\ found[1] \in passed[a] /\ found[2] \in passed[b]

\* C17: a call of fetchWithRetries that made n attempts slept n - 1 times.
C17_SleepsBetweenAttempts ==
    Called => result.sleeps = result.attempts - 1

\* s contains the character '*'.
HasStar(s) == \E j \in DOMAIN s : s[j] = "*"

\* C19: no string containing '*' at any position is in the set.
C19_NoStarAnywhere ==
    \A s \in uniqueSubs : ~HasStar(s)

\* The adapter's fetch has returned: what its source answered is fixed.
Answered(a) == pc[a] \in {"range", "lock", "critical", "undecoded", "done", "panicked"}
\* The strings the adapter has still to pass to addSubdomain.
Pending(a) ==
    {Argument(a, items[a][j], domain) :
        j \in {k \in DOMAIN items[a] : Accepts(a, items[a][k])}}
\* The strings the answer of the adapter's source makes it pass.
Contribution(a) == passed[a] \cup Pending(a)

\* C20: when the process has ended after the adapters ran, the set is the one the answers of the
\* four sources fix, the non-wildcard strings among the contributions,
\* whatever the order of the adapters' steps.
C20_FinalSetFixedByAnswers ==
    (Launches /\ ~Running /\ \A a \in Adapters : Answered(a))
        => uniqueSubs = NonWildcard(UNION {Contribution(a) : a \in Adapters})

\* The goroutines have been started.
Launched == \A a \in Adapters : pc[a] # "idle"
\* The adapters that have not yet signalled completion.
Outstanding == {a \in Adapters : ~Signalled(a)}

\* C21: the counter is 0 until main sets it to 4 in the step that starts the
\* four adapters; from then on it is the number of adapters that have not yet
\* signalled, so never negative and 0 exactly when all four have; a step
\* that ends an adapter, by whichever path, lowers it by exactly one, an
\* adapter that has ended takes no further step, and nothing else changes it.
C21_DoneOncePerAdapter ==
    /\ [](/\ wg \in 0..4
          /\ ~Launched => (wg = 0 /\ \A a \in Adapters : pc[a] = "idle")
          /\ Launched => wg = Cardinality(Outstanding)
          /\ Launched => (wg = 0 <=> \A a \in Adapters : Signalled(a)))
    /\ [][/\ (~Launched /\ Launched') => (wg' = 4 /\ \A a \in Adapters : pc'[a] = "start")
          /\ \A a \in Adapters :
                (~Signalled(a) /\ pc'[a] \in {"done", "panicked"}) => wg' = wg - 1
          /\ \A a \in Adapters : Signalled(a) => pc'[a] = pc[a]
          /\ wg' # wg =>
                \/ ~Launched /\ Launched'
                \/ \E a \in Adapters : ~Signalled(a) /\ pc'[a] \in {"done", "panicked"}]_vars

\* C21 witness: the counter is back at 0 with main past the barrier, after
\* one adapter ended without its credential, one on a fetch error and one
\* after recording a finding.
C21_Witness ==
    /\ mainPc = "print"
    /\ wg = 0
    /\ \E a \in KeyedAdapters : apiKey[a] = EmptyString /\ pc[a] = "done"
    /\ \E a, b \in Adapters : a # b /\ err[a] # "nil" /\ passed[b] \cap uniqueSubs # {}

\* The adapters inside the critical section of addSubdomain.
InCritical == {a \in Adapters : pc[a] = "critical"}

\* C22: at most one adapter is inside the critical section and it is the
\* holder of mu; mu is held by nobody else, so every return of addSubdomain,
\* the one that drops a wildcard included, has released it; and while the
\* process runs an adapter waiting for mu can take it, or its holder can
\* return and release it.
C22_MutualExclusionNoDeadlock ==
    /\ Cardinality(InCritical) <= 1
    /\ \A a \in Adapters : mu = a <=> pc[a] = "critical"
    /\ mu = "free" <=> InCritical = {}
    /\ \A a \in Adapters :
          (Running /\ pc[a] = "lock") =>
              IF mu = "free"
              THEN ENABLED AddLock(a)
              ELSE \E b \in Adapters : mu = b /\ ENABLED AddSubdomain(b)

\* C22 witness: one adapter is inside the critical section with a wildcard,
\* about to take the early return, while another waits for mu.
C22_Witness ==
    \E a, b \in Adapters :
        /\ pc[a] = "critical"
        /\ StartsWithStar(arg[a])
        /\ pc[b] = "lock"

====
